---- MODULE Spec2Model ----
(***************************************************************************)
(* State-machine model of the ticket checker: the three program variants   *)
(* (notify-and-exit, auto-fill-and-continue, notify-and-continue), their   *)
(* configuration loading, the background browser allocator, the bounded    *)
(* availability probe, the notification send, the auto-fill sequence and   *)
(* the ticker-driven scheduling loop.  Time is counted in milliseconds.    *)
(***************************************************************************)
EXTENDS Integers, Sequences, FiniteSets, TLC

VARIABLES
    variant,          \* which program is running
    env,              \* the process environment (read by loadConfig)
    config,           \* *Config returned by loadConfig, or NoConfig
    pc,               \* position of the main goroutine
    exitCause,        \* why the process ended ("none" while it runs)
    browserAllocCtx,  \* global: allocator context of the background browser
                      \* ({} is nil, {a} is the context of allocator a)
    browserCancel,    \* global: its cancel function ({} is nil, {a} cancels a)
    bgLive,           \* background allocators created and not yet cancelled
    inits,            \* number of initBrowser calls so far
    probeSession,     \* the probe's browser context: "none", "fresh", "derived"
    intLive,          \* the auto-fill's visible browser is running
    ctxLeft,          \* time left until the current context's deadline
    sleepLeft,        \* time left of the human-completion time.Sleep
    tickLeft,         \* time left until the ticker fires next
    tickPending,      \* ticks sitting in the ticker's channel
    ticksInCycle,     \* ticks fired since the current cycle began (saturating)
    failPhase,        \* phase in which the probe's chromedp.Run failed
    runErr,           \* error returned by the probe's chromedp.Run
    fontTexts,        \* texts extracted by the probe's Evaluate
    scanIdx,          \* index of the text the keyword loop looks at
    result,           \* (available, err) returned by checkTicketAvailability
    afStep,           \* scripted auto-fill step that failed ("none" if none)
    afErr,            \* error returned by the auto-fill's chromedp.Run
    afDone,           \* effects of the scripted steps on the form
    afResult,         \* what autoFillAndWaitForCaptcha returned
    mailAttempts,     \* DialAndSend calls made (saturating)
    mailSent,         \* DialAndSend calls that succeeded (saturating)
    cyclesActive,     \* runCheck invocations that have not returned
    probesActive,     \* checkTicketAvailability invocations not returned
    cycleLog,         \* log lines written by runCheck in the current cycle
    browserMutex,     \* global: "free", or who holds the lock
    cycleSends,       \* answers to the DialAndSend calls of the current cycle
    afTrace           \* scripted auto-fill steps attempted in the current cycle

vars == << variant, env, config, pc, exitCause, browserAllocCtx, browserCancel,
           bgLive, inits, probeSession, intLive, ctxLeft, sleepLeft, tickLeft,
           tickPending, ticksInCycle, failPhase, runErr, fontTexts, scanIdx, result, afStep,
           afErr, afDone, afResult, mailAttempts, mailSent, cyclesActive,
           probesActive, cycleLog, browserMutex, cycleSends, afTrace >>

(***************************************************************************)
(* Bounds of the model.                                                    *)
(***************************************************************************)
MaxRunes == 4       \* runes extracted by one probe, over all texts
MaxTexts == 2       \* texts extracted by one probe
MaxInits == 2       \* initBrowser calls in one run
MaxCount == 2       \* counters saturate here

(***************************************************************************)
(* Program constants.                                                      *)
(***************************************************************************)
Second == 1000
Minute == 60000
ProbeTimeoutSeconds == 30      \* context.WithTimeout(ctx, 30*time.Second)
AutoFillTimeoutMinutes == 3    \* context.WithTimeout(ctx, 3*time.Minute)
HoldMinutes == 3               \* time.Sleep(3 * time.Minute)
SettleFormMs == 500            \* chromedp.Sleep after the form is visible
SettleSelectMs == 300          \* chromedp.Sleep after the quantity select
SettleClickMs == 300           \* chromedp.Sleep after the agree click

ProbeTimeout == ProbeTimeoutSeconds * Second
AutoFillTimeout == AutoFillTimeoutMinutes * Minute
HoldDuration == HoldMinutes * Minute

Nil == "nil"
NoError == << >>            \* a nil error
Pending == <<"pending">>    \* no value yet
NoTimer == 0 - 1

Variants == {"notify_exit", "autofill", "notify_continue"}

\* The variant keeps a background allocator (main.go second program).
Persistent(v) == v = "autofill"
\* The variant reads the ticket groups' texts (structural marker).
Structural(v) == v \in {"autofill", "notify_continue"}
\* The variant needs the mail settings.
Mails(v) == v \in {"notify_exit", "notify_continue"}

Min(a, b) == IF a < b THEN a ELSE b
Bump(n) == Min(n + 1, MaxCount)

(***************************************************************************)
(* Strings are sequences of runes; strings.Contains is contiguous          *)
(* sub-sequence search.                                                    *)
(***************************************************************************)
Contains(s, sub) ==
    \E i \in 0..(Len(s) - Len(sub)) :
        \A j \in 1..Len(sub) : s[i + j] = sub[j]

\* strings.ReplaceAll(s, " ", "")
RECURSIVE StripSpaces(_)
StripSpaces(s) ==
    IF s = << >> THEN << >>
    ELSE IF Head(s) = " " THEN StripSpaces(Tail(s))
         ELSE << Head(s) >> \o StripSpaces(Tail(s))

Digits == {"0", "1", "2", "3", "4", "5", "6", "7", "8", "9"}
DigitVal(c) ==
    CASE c = "0" -> 0 [] c = "1" -> 1 [] c = "2" -> 2 [] c = "3" -> 3
      [] c = "4" -> 4 [] c = "5" -> 5 [] c = "6" -> 6 [] c = "7" -> 7
      [] c = "8" -> 8 [] c = "9" -> 9

RECURSIVE DecimalValue(_, _)
DecimalValue(s, acc) ==
    IF s = << >> THEN acc
    ELSE DecimalValue(Tail(s), acc * 10 + DigitVal(Head(s)))

\* strconv.Atoi: an optional sign and at least one decimal digit.
Atoi(s) ==
    LET signed == s # << >> /\ Head(s) \in {"+", "-"}
        body == IF signed THEN Tail(s) ELSE s
        ok == body # << >> /\ \A i \in 1..Len(body) : body[i] \in Digits
    IN  IF ~ok THEN [ok |-> FALSE, val |-> 0]
        ELSE [ok |-> TRUE,
              val |-> IF signed /\ Head(s) = "-"
                      THEN 0 - DecimalValue(body, 0)
                      ELSE DecimalValue(body, 0)]

(***************************************************************************)
(* The environment loadConfig reads.                                       *)
(***************************************************************************)
TargetURLs == {"", "https://tixcraft.example/ticket"}
IntervalStrs == { << >>, <<"1">>, <<"0">>, <<"-", "1">>, <<"x">> }
PortStrs == { << >>, <<"2", "5">>, <<"x">> }
Passwords == { << >>, <<" ">>, <<"p", " ", "w">> }
Addresses == {"", "set"}

GoodEnv ==
    [TARGET_URL |-> "https://tixcraft.example/ticket",
     CHECK_INTERVAL_SECONDS |-> << >>,
     SMTP_PORT |-> << >>,
     RECIPIENT_EMAIL |-> "set",
     SENDER_EMAIL |-> "set",
     SENDER_PASSWORD |-> <<"p", " ", "w">>,
     SMTP_HOST |-> "set"]

AllEnvs ==
    [TARGET_URL : TargetURLs,
     CHECK_INTERVAL_SECONDS : IntervalStrs,
     SMTP_PORT : PortStrs,
     RECIPIENT_EMAIL : Addresses,
     SENDER_EMAIL : Addresses,
     SENDER_PASSWORD : Passwords,
     SMTP_HOST : Addresses]

\* Environments that differ from a complete one in at most one setting
\* besides the check interval.
Envs ==
    { e \in AllEnvs :
        Cardinality({ f \in DOMAIN GoodEnv \ {"CHECK_INTERVAL_SECONDS"} :
                        e[f] # GoodEnv[f] }) <= 1 }

\* The settings the variant's loadConfig reads; the others stay as in GoodEnv.
Reads(v) ==
    IF Mails(v) THEN DOMAIN GoodEnv
    ELSE {"TARGET_URL", "CHECK_INTERVAL_SECONDS"}

EnvsFor(v) ==
    { e \in Envs : \A f \in DOMAIN GoodEnv \ Reads(v) : e[f] = GoodEnv[f] }

DefaultInterval == 60

\* The nil *Config loadConfig returns beside an error.
NoConfig == [TargetURL |-> "", CheckInterval |-> 0]

DefaultPort == <<"5", "8", "7">>

\* loadConfig of the two mail variants (main.go 28-74, part_000 28-74).
loadConfigMail(e) ==
    LET portStr == IF e.SMTP_PORT = << >> THEN DefaultPort ELSE e.SMTP_PORT
        port == Atoi(portStr)
        interval == IF e.CHECK_INTERVAL_SECONDS = << >>
                    THEN [ok |-> TRUE, val |-> DefaultInterval]
                    ELSE Atoi(e.CHECK_INTERVAL_SECONDS)
        password == StripSpaces(e.SENDER_PASSWORD)
    IN  IF ~port.ok THEN [err |-> "SMTP_PORT", cfg |-> NoConfig]
        ELSE IF ~interval.ok THEN [err |-> "CHECK_INTERVAL_SECONDS", cfg |-> NoConfig]
        ELSE IF e.TARGET_URL = "" THEN [err |-> "TARGET_URL", cfg |-> NoConfig]
        ELSE IF e.RECIPIENT_EMAIL = "" THEN [err |-> "RECIPIENT_EMAIL", cfg |-> NoConfig]
        ELSE IF e.SENDER_EMAIL = "" THEN [err |-> "SENDER_EMAIL", cfg |-> NoConfig]
        ELSE IF password = << >> THEN [err |-> "SENDER_PASSWORD", cfg |-> NoConfig]
        ELSE IF e.SMTP_HOST = "" THEN [err |-> "SMTP_HOST", cfg |-> NoConfig]
        ELSE [err |-> Nil,
              cfg |-> [TargetURL |-> e.TARGET_URL,
                       CheckInterval |-> interval.val * Second]]

\* loadConfig of the auto-fill variant (main.go 236-256).
loadConfigPlain(e) ==
    LET interval == IF e.CHECK_INTERVAL_SECONDS = << >>
                    THEN [ok |-> TRUE, val |-> DefaultInterval]
                    ELSE Atoi(e.CHECK_INTERVAL_SECONDS)
    IN  IF ~interval.ok THEN [err |-> "CHECK_INTERVAL_SECONDS", cfg |-> NoConfig]
        ELSE IF e.TARGET_URL = "" THEN [err |-> "TARGET_URL", cfg |-> NoConfig]
        ELSE [err |-> Nil,
              cfg |-> [TargetURL |-> e.TARGET_URL,
                       CheckInterval |-> interval.val * Second]]

\* Mutant: the settings are taken as they come, no error is returned.
loadConfig_NoValidation(v, e) ==
    [err |-> Nil,
     cfg |-> [TargetURL |-> e.TARGET_URL, CheckInterval |-> DefaultInterval * Second]]

loadConfig(v, e) == IF Mails(v) THEN loadConfigMail(e) ELSE loadConfigPlain(e)

(***************************************************************************)
(* Texts read from the page, error texts, and the keyword test.            *)
(***************************************************************************)
Runes == {"sheng", "yu", "re", "mai", "zhong", "x"}

KeywordRemaining == <<"sheng", "yu">>          \* "剩餘"
KeywordHotSelling == <<"re", "mai", "zhong">>  \* "熱賣中"

\* Mutant: the second keyword is not looked for.
Matches_FirstKeywordOnly(text) == Contains(text, KeywordRemaining)

\* strings.Contains(text, "剩餘") || strings.Contains(text, "熱賣中")
Matches(text) ==
    Contains(text, KeywordRemaining) \/ Contains(text, KeywordHotSelling)

RuneSeqs(n) == UNION { [1..k -> Runes] : k \in 0..n }
Cuts(n, k) == { c \in [1..k -> 0..n] : \A i \in 1..(k - 1) : c[i] <= c[i + 1] }
Split(s, c) ==
    [i \in 1..(Len(c) + 1) |->
        SubSeq(s, (IF i = 1 THEN 0 ELSE c[i - 1]) + 1,
                  IF i = Len(c) + 1 THEN Len(s) ELSE c[i])]

\* The lists of m texts that s can be cut into, in order.
TextListsOf(s, m) ==
    IF m = 0
    THEN IF s = << >> THEN { << >> } ELSE {}
    ELSE { Split(s, c) : c \in Cuts(Len(s), m - 1) }

\* The pages the running program is shown.
SampleTextLists ==
    { << >>,
      << <<"x">> >>,
      << <<"x">>, <<"sheng", "yu", "x">> >>,
      << <<"re", "mai", "zhong">>, <<"x">> >> }

ErrDeadline == <<"context", "deadline", "exceeded">>
ErrCanceled == <<"context", "canceled">>
ErrNavigate == <<"page", "load", "error", "net::ERR_CONNECTION_RESET">>
ErrScript == <<"exception", "Uncaught">>

DeadlineText == <<"context", "deadline", "exceeded">>

NoResult == [available |-> FALSE, err |-> Pending]
NotAvailable == [available |-> FALSE, err |-> NoError]
Available == [available |-> TRUE, err |-> NoError]
Failed(e) == [available |-> FALSE, err |-> e]

\* Mutant: every error of chromedp.Run is returned to the caller.
ClassifyRunError_NoTimeoutBranch(err) == Failed(err)

\* The error branch after chromedp.Run in checkTicketAvailability.
ClassifyRunError(err) ==
    IF Contains(err, DeadlineText) THEN NotAvailable ELSE Failed(err)

(***************************************************************************)
(* Initial state: the process has just started.                            *)
(***************************************************************************)
NoForm == [selected |-> FALSE, agreed |-> FALSE, focused |-> FALSE]

InitRest ==
    /\ config = NoConfig
    /\ exitCause = "none"
    /\ browserAllocCtx = {}
    /\ browserCancel = {}
    /\ bgLive = {}
    /\ inits = 0
    /\ probeSession = "none"
    /\ intLive = FALSE
    /\ ctxLeft = NoTimer
    /\ sleepLeft = NoTimer
    /\ tickLeft = NoTimer
    /\ tickPending = 0
    /\ ticksInCycle = 0
    /\ failPhase = "none"
    /\ runErr = NoError
    /\ fontTexts = << >>
    /\ scanIdx = 0
    /\ result = NoResult
    /\ afStep = "none"
    /\ afErr = NoError
    /\ afDone = NoForm
    /\ afResult = "none"
    /\ mailAttempts = 0
    /\ mailSent = 0
    /\ cyclesActive = 0
    /\ probesActive = 0
    /\ cycleLog = << >>
    /\ browserMutex = "free"
    /\ cycleSends = << >>
    /\ afTrace = << >>

Init ==
    /\ variant \in Variants
    /\ env \in EnvsFor(variant)
    /\ pc = "start"
    /\ InitRest

(***************************************************************************)
(* Process exit.                                                           *)
(***************************************************************************)
\* The deferred function of main (main.go 464-468): runs when main returns
\* or panics; os.Exit, log.Fatalf and a fatal signal do not run it.
DeferredCancel(live) ==
    IF browserCancel # {} THEN live \ browserCancel ELSE live

(***************************************************************************)
(* Startup: loadConfig, initBrowser, time.NewTicker.                       *)
(***************************************************************************)
LoadConfig ==
    /\ pc = "start"
    /\ LET r == loadConfig(variant, env)
       IN  IF r.err # Nil
           THEN /\ pc' = "exited"
                /\ exitCause' = "fatal_config"
                /\ UNCHANGED config
           ELSE /\ pc' = "configured"
                /\ config' = r.cfg
                /\ UNCHANGED exitCause
    /\ UNCHANGED << variant, env, browserAllocCtx, browserCancel, bgLive, inits,
                    probeSession, intLive, ctxLeft, sleepLeft, tickLeft,
                    tickPending, ticksInCycle, failPhase, runErr, fontTexts, scanIdx, result,
                    afStep, afErr, afDone, afResult, mailAttempts, mailSent,
                    cyclesActive, probesActive, cycleLog,
                    browserMutex, cycleSends, afTrace >>

\* Mutant: the published allocator is not cancelled first.
AfterInit_NoTeardown(live, cancel, id) == live \cup {id}

\* initBrowser: the allocators alive after cancelling the published one (if
\* any) and creating allocator id.
AfterInit(live, cancel, id) ==
    (IF cancel # {} THEN live \ cancel ELSE live) \cup {id}

\* browserMutex.Lock() on entry, the deferred Unlock() on return.
initBrowser ==
    /\ browserMutex = "free"
    /\ browserMutex' = "free"
    /\ bgLive' = AfterInit(bgLive, browserCancel, inits + 1)
    /\ browserAllocCtx' = {inits + 1}
    /\ browserCancel' = {inits + 1}
    /\ inits' = inits + 1

\* Mutant: main goes on to the ticker without calling initBrowser.
InitBrowser_Skipped ==
    /\ pc = "configured"
    /\ Persistent(variant)
    /\ pc' = "browser_ready"
    /\ UNCHANGED << variant, env, config, exitCause, browserAllocCtx,
                    browserCancel, bgLive, inits, probeSession, intLive,
                    ctxLeft, sleepLeft, tickLeft, tickPending, ticksInCycle,
                    failPhase, runErr, fontTexts, scanIdx, result, afStep,
                    afErr, afDone, afResult, mailAttempts, mailSent,
                    cyclesActive, probesActive, cycleLog, browserMutex,
                    cycleSends, afTrace >>

InitBrowser ==
    /\ pc = "configured"
    /\ Persistent(variant)
    /\ initBrowser
    /\ pc' = "browser_ready"
    /\ UNCHANGED << variant, env, config, exitCause, probeSession, intLive,
                    ctxLeft, sleepLeft, tickLeft, tickPending, ticksInCycle, failPhase, runErr,
                    fontTexts, scanIdx, result, afStep, afErr, afDone, afResult,
                    mailAttempts, mailSent, cyclesActive, probesActive,
                    cycleLog,
                    cycleSends, afTrace >>

\* time.NewTicker panics on a non-positive interval; the panic unwinds main
\* and runs its deferred functions.
NewTicker ==
    /\ pc = (IF Persistent(variant) THEN "browser_ready" ELSE "configured")
    /\ IF config.CheckInterval <= 0
       THEN /\ pc' = "exited"
            /\ exitCause' = "panic"
            /\ bgLive' = DeferredCancel(bgLive)
            /\ UNCHANGED tickLeft
       ELSE /\ pc' = "first_check"
            /\ tickLeft' = config.CheckInterval
            /\ UNCHANGED << exitCause, bgLive >>
    /\ UNCHANGED << variant, env, config, browserAllocCtx, browserCancel, inits,
                    probeSession, intLive, ctxLeft, sleepLeft, tickPending, ticksInCycle,
                    failPhase, runErr, fontTexts, scanIdx, result, afStep, afErr,
                    afDone, afResult, mailAttempts, mailSent, cyclesActive,
                    probesActive, cycleLog,
                    browserMutex, cycleSends, afTrace >>

(***************************************************************************)
(* The ticker: d milliseconds pass.  The channel of a time.Ticker holds one *)
(* tick; a tick that finds it full is dropped.                             *)
(***************************************************************************)
\* Ticks the ticker fires while d milliseconds pass.
TicksWithin(d) ==
    IF d < tickLeft THEN 0
    ELSE 1 + ((d - tickLeft) \div config.CheckInterval)

\* Mutant: the channel queues every tick.
Elapse_Queued(d) ==
    /\ tickLeft' = IF d < tickLeft
                   THEN tickLeft - d
                   ELSE config.CheckInterval
                          - ((d - tickLeft) % config.CheckInterval)
    /\ tickPending' = Min(tickPending + TicksWithin(d), MaxCount)
    /\ ticksInCycle' = Min(ticksInCycle + TicksWithin(d), MaxCount)

Elapse(d) ==
    /\ tickLeft' = IF d < tickLeft
                   THEN tickLeft - d
                   ELSE config.CheckInterval
                          - ((d - tickLeft) % config.CheckInterval)
    /\ tickPending' = Min(tickPending + TicksWithin(d), 1)
    /\ ticksInCycle' = Min(ticksInCycle + TicksWithin(d), MaxCount)

(***************************************************************************)
(* checkTicketAvailability.                                                *)
(***************************************************************************)
\* Mutant: the lock is released by a deferred Unlock, when the probe returns.
MutexAfterDerive_Deferred == "probe"

\* Who holds browserMutex after checkTicketAvailability derived its context:
\* Unlock() is called right after chromedp.NewContext.
MutexAfterDerive == "free"

\* Entry of runCheck and of checkTicketAvailability: the probe's contexts
\* are created and the 30-second deadline starts.
\* The persistent variant derives its context from browserAllocCtx between
\* browserMutex.Lock() and Unlock(); chromedp.NewContext panics on a nil
\* parent, before the Unlock, and the panic unwinds main (whose deferred
\* function finds browserCancel nil as well).
BeginCheck ==
    /\ Persistent(variant) => browserMutex = "free"
    /\ cyclesActive' = Bump(cyclesActive)
    /\ probesActive' = Bump(probesActive)
    /\ IF Persistent(variant) /\ browserAllocCtx = {}
       THEN /\ browserMutex' = "probe"
            /\ probeSession' = "none"
            /\ ctxLeft' = NoTimer
            /\ pc' = "exited"
            /\ exitCause' = "panic"
       ELSE /\ browserMutex' = IF Persistent(variant)
                               THEN MutexAfterDerive
                               ELSE browserMutex
            /\ probeSession' = IF Persistent(variant) THEN "derived" ELSE "fresh"
            /\ ctxLeft' = ProbeTimeout
            /\ pc' = "navigate"
            /\ UNCHANGED exitCause
    /\ ticksInCycle' = 0
    /\ cycleSends' = << >>
    /\ afTrace' = << >>
    /\ failPhase' = "none"
    /\ runErr' = NoError
    /\ fontTexts' = << >>
    /\ scanIdx' = 0
    /\ result' = NoResult
    /\ afStep' = "none"
    /\ afErr' = NoError
    /\ afDone' = NoForm
    /\ afResult' = "none"
    /\ cycleLog' = << >>

\* main calls runCheck directly, before reading the ticker.
FirstCheck ==
    /\ pc = "first_check"
    /\ BeginCheck
    /\ UNCHANGED << variant, env, config, browserAllocCtx, browserCancel,
                    bgLive, inits, intLive, sleepLeft, tickLeft, tickPending,
                    mailAttempts, mailSent >>

\* Mutant: runCheck is started without waiting for it (go runCheck(config)).
LoopReady_Async ==
    pc \notin {"start", "configured", "browser_ready", "first_check", "exited"}

\* The main goroutine is at `for range ticker.C`: the previous runCheck call
\* has returned.
LoopReady == pc = "idle"

\* One iteration of `for range ticker.C`: take the buffered tick, or wait for
\* the next one, then call runCheck.
NextCheck ==
    /\ LoopReady
    /\ tickPending' = IF tickPending > 0 THEN tickPending - 1 ELSE 0
    /\ tickLeft' = IF tickPending > 0 THEN tickLeft ELSE config.CheckInterval
    /\ BeginCheck
    /\ UNCHANGED << variant, env, config, browserAllocCtx, browserCancel,
                    bgLive, inits, intLive, sleepLeft, mailAttempts, mailSent >>

ProbePhases == <<"navigate", "wait_visible", "evaluate">>

\* The position after a phase of the probe's chromedp.Run succeeded.
AfterPhase(phase) ==
    CASE phase = "navigate" -> "wait_visible"
      [] phase = "wait_visible" ->
            IF Structural(variant) THEN "evaluate" ELSE "run_done"
      [] phase = "evaluate" -> "run_done"

\* Failures of a phase other than the deadline.
PhaseErrors(phase) ==
    CASE phase = "navigate" -> {ErrNavigate, ErrCanceled}
      [] phase = "wait_visible" -> {ErrCanceled}
      [] phase = "evaluate" -> {ErrScript, ErrCanceled}

ProbeFrame ==
    UNCHANGED << variant, env, config, exitCause, browserAllocCtx,
                 browserCancel, bgLive, inits, probeSession, intLive, sleepLeft,
                 scanIdx, result, afStep, afErr, afDone, afResult, mailAttempts,
                 mailSent, cyclesActive, probesActive, cycleLog,
                 browserMutex, cycleSends, afTrace >>

\* A phase of chromedp.Run(ctx, Navigate, WaitVisible, Evaluate) succeeds.
PhaseOk(phase) ==
    /\ pc = phase
    /\ pc' = AfterPhase(phase)
    /\ IF phase = "evaluate"
       THEN fontTexts' \in SampleTextLists
       ELSE UNCHANGED fontTexts
    /\ UNCHANGED << ctxLeft, tickLeft, tickPending, ticksInCycle, failPhase, runErr >>
    /\ ProbeFrame

\* Mutant: the deadline passes and the phase goes on waiting under a new one.
PhaseDeadline_Rearmed(phase) ==
    /\ pc = phase
    /\ Elapse(ctxLeft)
    /\ ctxLeft' = ProbeTimeout
    /\ UNCHANGED << pc, failPhase, runErr, fontTexts >>
    /\ ProbeFrame

\* A phase blocks until the context's deadline: Run returns ctx.Err().
PhaseDeadline(phase) ==
    /\ pc = phase
    /\ Elapse(ctxLeft)
    /\ ctxLeft' = 0
    /\ failPhase' = phase
    /\ runErr' = ErrDeadline
    /\ pc' = "run_done"
    /\ UNCHANGED fontTexts
    /\ ProbeFrame

\* A phase fails for another reason.
PhaseFails(phase, e) ==
    /\ pc = phase
    /\ failPhase' = phase
    /\ runErr' = e
    /\ pc' = "run_done"
    /\ UNCHANGED << ctxLeft, tickLeft, tickPending, ticksInCycle, fontTexts >>
    /\ ProbeFrame

ProbeRun ==
    \E i \in DOMAIN ProbePhases :
        \/ PhaseOk(ProbePhases[i])
        \/ PhaseDeadline(ProbePhases[i])
        \/ \E e \in PhaseErrors(ProbePhases[i]) : PhaseFails(ProbePhases[i], e)

\* Mutant: the probe returns without cancelling its contexts.
ProbeReturn_Leaks(r) ==
    /\ result' = r
    /\ UNCHANGED probeSession
    /\ probesActive' = probesActive - 1
    /\ ctxLeft' = NoTimer
    /\ pc' = "probe_ret"

\* checkTicketAvailability returns: its deferred cancels close the probe's
\* browser context.
ProbeReturn(r) ==
    /\ result' = r
    /\ probeSession' = "none"
    /\ probesActive' = probesActive - 1
    /\ ctxLeft' = NoTimer
    /\ pc' = "probe_ret"

ReturnFrame ==
    UNCHANGED << variant, env, config, exitCause, browserAllocCtx,
                 browserCancel, bgLive, inits, intLive, sleepLeft, tickLeft,
                 tickPending, ticksInCycle, failPhase, runErr, fontTexts, afStep, afErr,
                 afDone, afResult, mailAttempts, mailSent, cyclesActive,
                 cycleLog,
                 browserMutex, cycleSends, afTrace >>

\* err != nil after chromedp.Run.
RunFailed ==
    /\ pc = "run_done"
    /\ runErr # NoError
    /\ ProbeReturn(ClassifyRunError(runErr))
    /\ UNCHANGED scanIdx
    /\ ReturnFrame

\* err == nil: the simple marker is the signal itself, the structural one
\* goes on to the keyword loop.
RunSucceeded ==
    /\ pc = "run_done"
    /\ runErr = NoError
    /\ IF Structural(variant)
       THEN /\ pc' = "scan"
            /\ scanIdx' = 1
            /\ UNCHANGED << result, probeSession, probesActive, ctxLeft >>
       ELSE /\ ProbeReturn(Available)
            /\ UNCHANGED scanIdx
    /\ ReturnFrame

\* One iteration of `for _, text := range fontTexts`.
ScanStep ==
    /\ pc = "scan"
    /\ scanIdx <= Len(fontTexts)
    /\ IF Matches(fontTexts[scanIdx])
       THEN /\ ProbeReturn(Available)
            /\ UNCHANGED scanIdx
       ELSE /\ scanIdx' = scanIdx + 1
            /\ UNCHANGED << result, probeSession, probesActive, ctxLeft, pc >>
    /\ ReturnFrame

\* The loop ran out of texts.
ScanEnd ==
    /\ pc = "scan"
    /\ scanIdx > Len(fontTexts)
    /\ ProbeReturn(NotAvailable)
    /\ UNCHANGED scanIdx
    /\ ReturnFrame

(***************************************************************************)
(* runCheck after the probe, and sendEmailNotification.                    *)
(***************************************************************************)
Line(tag, err, url) == [tag |-> tag, err |-> err, url |-> url]
Log(tag, err) == cycleLog' = Append(cycleLog, Line(tag, err, ""))

\* runCheck returns to main's loop.
EndCycle ==
    /\ cyclesActive' = cyclesActive - 1
    /\ pc' = "idle"

CheckFrame ==
    UNCHANGED << variant, env, config, browserAllocCtx, browserCancel, bgLive,
                 inits, probeSession, intLive, ctxLeft, sleepLeft, tickLeft,
                 tickPending, ticksInCycle, failPhase, runErr, fontTexts, scanIdx, result,
                 afStep, afErr, afDone, probesActive,
                 browserMutex, afTrace >>

\* Mutant: a probe error ends the process (log.Fatalf for log.Printf).
CheckError_Fatal ==
    /\ pc = "probe_ret"
    /\ result.err # NoError
    /\ Log("check_error", result.err)
    /\ pc' = "exited"
    /\ exitCause' = "fatal_check"
    /\ UNCHANGED << afResult, mailAttempts, mailSent, cyclesActive,
                    cycleSends >>
    /\ CheckFrame

\* `if err != nil { log; return }`
CheckError ==
    /\ pc = "probe_ret"
    /\ result.err # NoError
    /\ Log("check_error", result.err)
    /\ EndCycle
    /\ UNCHANGED << exitCause, afResult, mailAttempts, mailSent,
                    cycleSends >>
    /\ CheckFrame

\* `if available` is false: runCheck falls off its end.
CheckNotAvailable ==
    /\ pc = "probe_ret"
    /\ result.err = NoError
    /\ ~result.available
    /\ EndCycle
    /\ UNCHANGED << exitCause, afResult, mailAttempts, mailSent, cycleLog,
                    cycleSends >>
    /\ CheckFrame

\* Mutant: the reaction starts whatever the probe returned beside nil.
CheckAvailable_Unchecked ==
    /\ pc = "probe_ret"
    /\ result.err = NoError
    /\ Log("found", NoError)
    /\ pc' = IF Mails(variant) THEN "notify" ELSE "af_begin"
    /\ UNCHANGED << exitCause, afResult, mailAttempts, mailSent, cyclesActive,
                    cycleSends >>
    /\ CheckFrame

\* `if available`: the variant's reaction starts.
CheckAvailable ==
    /\ pc = "probe_ret"
    /\ result.err = NoError
    /\ result.available
    /\ Log("found", NoError)
    /\ pc' = IF Mails(variant) THEN "notify" ELSE "af_begin"
    /\ UNCHANGED << exitCause, afResult, mailAttempts, mailSent, cyclesActive,
                    cycleSends >>
    /\ CheckFrame

\* Mutant: no variant ends the process after a send.
ExitsAfterSend_Never(v) == FALSE

\* The variant ends the process after a successful send (os.Exit(0)).
ExitsAfterSend(v) == v = "notify_exit"

ErrSmtp == <<"smtp">>

\* Mutant: a failed DialAndSend is tried once more.
DialAndSends_RetryOnce(ok) == IF ok THEN << TRUE >> ELSE << FALSE, FALSE >>

\* The answers to the DialAndSend calls one sendEmailNotification call makes:
\* d.DialAndSend(m) is called once; ok is what the mail server answered.
DialAndSends(ok) == << ok >>

\* What sendEmailNotification returns after DialAndSend answered ok.
SendError(ok) == IF ok THEN NoError ELSE ErrSmtp

\* sendEmailNotification and the branch of runCheck on its result.
Notify(ok) ==
    /\ pc = "notify"
    /\ cycleSends' = cycleSends \o DialAndSends(ok)
    /\ mailAttempts' = Min(mailAttempts + Len(DialAndSends(ok)), MaxCount)
    /\ IF SendError(ok) = NoError
       THEN /\ mailSent' = Bump(mailSent)
            /\ IF ExitsAfterSend(variant)
               THEN /\ Log("sent_exit", NoError)
                    /\ pc' = "exited"
                    /\ exitCause' = "os_exit_0"
                    /\ UNCHANGED cyclesActive
               ELSE /\ Log("sent_continue", NoError)
                    /\ EndCycle
                    /\ UNCHANGED exitCause
       ELSE /\ Log("send_error", SendError(ok))
            /\ EndCycle
            /\ UNCHANGED << mailSent, exitCause >>
    /\ UNCHANGED afResult
    /\ CheckFrame

(***************************************************************************)
(* autoFillAndWaitForCaptcha.                                              *)
(***************************************************************************)
\* The visible browser's contexts are created and the 3-minute deadline
\* starts (main.go 375-383).
AfBegin ==
    /\ pc = "af_begin"
    /\ intLive' = TRUE
    /\ ctxLeft' = AutoFillTimeout
    /\ pc' = "af_navigate"
    /\ UNCHANGED << variant, env, config, exitCause, browserAllocCtx,
                    browserCancel, bgLive, inits, probeSession, sleepLeft,
                    tickLeft, tickPending, ticksInCycle, failPhase, runErr, fontTexts,
                    scanIdx, result, afStep, afErr, afDone, afResult,
                    mailAttempts, mailSent, cyclesActive, probesActive,
                    cycleLog,
                    browserMutex, cycleSends, afTrace >>

\* The browser actions of the scripted chromedp.Run, in order; the settle
\* sleep that follows each one, if any.
AfActions == <<"af_navigate", "af_wait_form", "af_select", "af_click", "af_focus">>

SettleAfter(step) ==
    CASE step = "af_wait_form" -> SettleFormMs
      [] step = "af_select" -> SettleSelectMs
      [] step = "af_click" -> SettleClickMs
      [] OTHER -> 0

AfNext(step) ==
    CASE step = "af_navigate" -> "af_wait_form"
      [] step = "af_wait_form" -> "af_select"
      [] step = "af_select" -> "af_click"
      [] step = "af_click" -> "af_focus"
      [] step = "af_focus" -> "af_run_done"

\* Failures of a scripted step other than the deadline.
AfErrors(step) ==
    IF step = "af_navigate" THEN {ErrNavigate, ErrCanceled} ELSE {ErrCanceled}

\* What a successful step leaves on the form.  The quantity script returns
\* true or false (found) and the value is discarded: res is nil.
AfEffect(step, found) ==
    CASE step = "af_select" -> [afDone EXCEPT !.selected = found]
      [] step = "af_click" -> [afDone EXCEPT !.agreed = TRUE]
      [] step = "af_focus" -> [afDone EXCEPT !.focused = TRUE]
      [] OTHER -> afDone

AfFrame ==
    UNCHANGED << variant, env, config, exitCause, browserAllocCtx,
                 browserCancel, bgLive, inits, probeSession, intLive, sleepLeft,
                 failPhase, runErr, fontTexts, scanIdx, result, afResult,
                 mailAttempts, mailSent, cyclesActive, probesActive, cycleLog,
                 browserMutex, cycleSends >>

\* A scripted step succeeds, and the settle sleep after it runs: chromedp.Sleep
\* returns the context's error when the deadline comes first.
AfOk(step, found) ==
    /\ pc = step
    /\ afTrace' = Append(afTrace, step)
    /\ step = "af_select" \/ found
    /\ afDone' = AfEffect(step, found)
    /\ IF SettleAfter(step) < ctxLeft
       THEN /\ Elapse(SettleAfter(step))
            /\ ctxLeft' = ctxLeft - SettleAfter(step)
            /\ pc' = AfNext(step)
            /\ UNCHANGED << afStep, afErr >>
       ELSE /\ Elapse(ctxLeft)
            /\ ctxLeft' = 0
            /\ afStep' = step
            /\ afErr' = ErrDeadline
            /\ pc' = "af_run_done"
    /\ AfFrame

\* A step waits for a page or an element that never comes, until the deadline.
AfDeadline(step) ==
    /\ pc = step
    /\ step # "af_select"
    /\ afTrace' = Append(afTrace, step)
    /\ Elapse(ctxLeft)
    /\ ctxLeft' = 0
    /\ afStep' = step
    /\ afErr' = ErrDeadline
    /\ pc' = "af_run_done"
    /\ UNCHANGED afDone
    /\ AfFrame

\* A step fails for another reason.
AfFails(step, e) ==
    /\ pc = step
    /\ afTrace' = Append(afTrace, step)
    /\ afStep' = step
    /\ afErr' = e
    /\ pc' = "af_run_done"
    /\ UNCHANGED << ctxLeft, tickLeft, tickPending, ticksInCycle, afDone >>
    /\ AfFrame

AfRun ==
    \E i \in DOMAIN AfActions :
        \/ \E found \in BOOLEAN : AfOk(AfActions[i], found)
        \/ AfDeadline(AfActions[i])
        \/ \E e \in AfErrors(AfActions[i]) : AfFails(AfActions[i], e)

AfReturnFrame ==
    UNCHANGED << variant, env, config, exitCause, browserAllocCtx,
                 browserCancel, bgLive, inits, probeSession, failPhase, runErr,
                 fontTexts, scanIdx, result, afStep, afErr, afDone,
                 mailAttempts, mailSent, cyclesActive, probesActive, cycleLog,
                 browserMutex, cycleSends, afTrace >>

\* err != nil after the scripted Run: the error is returned and the deferred
\* cancels close the visible browser.
AfRunFailed ==
    /\ pc = "af_run_done"
    /\ afErr # NoError
    /\ afResult' = "error"
    /\ intLive' = FALSE
    /\ ctxLeft' = NoTimer
    /\ pc' = "af_ret"
    /\ UNCHANGED << sleepLeft, tickLeft, tickPending, ticksInCycle >>
    /\ AfReturnFrame

\* err == nil: time.Sleep(3 * time.Minute) starts.
AfRunSucceeded ==
    /\ pc = "af_run_done"
    /\ afErr = NoError
    /\ sleepLeft' = HoldDuration
    /\ pc' = "hold"
    /\ UNCHANGED << afResult, intLive, ctxLeft, tickLeft, tickPending, ticksInCycle >>
    /\ AfReturnFrame

\* The context's deadline comes while main sleeps: the browser started by
\* the Run on that context is stopped.
HoldDeadline ==
    /\ pc = "hold"
    /\ intLive
    /\ ctxLeft < sleepLeft
    /\ Elapse(ctxLeft)
    /\ sleepLeft' = sleepLeft - ctxLeft
    /\ ctxLeft' = 0
    /\ intLive' = FALSE
    /\ UNCHANGED << afResult, pc >>
    /\ AfReturnFrame

\* The sleep ends: nil is returned and the deferred cancels run.
HoldReturn ==
    /\ pc = "hold"
    /\ ~(intLive /\ ctxLeft < sleepLeft)
    /\ Elapse(sleepLeft)
    /\ sleepLeft' = NoTimer
    /\ ctxLeft' = NoTimer
    /\ intLive' = FALSE
    /\ afResult' = "ok"
    /\ pc' = "af_ret"
    /\ AfReturnFrame

\* What runCheck logs after autoFillAndWaitForCaptcha returned.
AfLogLines(res, err, url) ==
    IF res = "error"
    THEN << Line("autofill_failed", err, ""), Line("manual", NoError, url),
            Line("hint", NoError, "") >>
    ELSE << Line("autofill_done", NoError, ""), Line("hint", NoError, "") >>

\* runCheck after autoFillAndWaitForCaptcha (main.go 494-502).
AfChecked ==
    /\ pc = "af_ret"
    /\ cycleLog' = cycleLog \o AfLogLines(afResult, afErr, config.TargetURL)
    /\ EndCycle
    /\ UNCHANGED << exitCause, afResult, mailAttempts, mailSent,
                    cycleSends >>
    /\ CheckFrame

(***************************************************************************)
(* The environment: a fatal signal (SIGINT, SIGTERM).  The program         *)
(* installs no handler: the process ends at once, no deferred call runs.   *)
(***************************************************************************)
Signal ==
    /\ pc # "exited"
    /\ pc' = "exited"
    /\ exitCause' = "signal"
    /\ UNCHANGED << variant, env, config, browserAllocCtx, browserCancel,
                    bgLive, inits, probeSession, intLive, ctxLeft, sleepLeft,
                    tickLeft, tickPending, ticksInCycle, failPhase, runErr, fontTexts,
                    scanIdx, result, afStep, afErr, afDone, afResult,
                    mailAttempts, mailSent, cyclesActive, probesActive,
                    cycleLog,
                    browserMutex, cycleSends, afTrace >>

(***************************************************************************)
(* Specifications.                                                         *)
(***************************************************************************)
Program ==
    \/ LoadConfig
    \/ InitBrowser
    \/ NewTicker
    \/ FirstCheck
    \/ NextCheck
    \/ ProbeRun
    \/ RunFailed
    \/ RunSucceeded
    \/ ScanStep
    \/ ScanEnd
    \/ CheckError
    \/ CheckNotAvailable
    \/ CheckAvailable
    \/ \E ok \in BOOLEAN : Notify(ok)
    \/ AfBegin
    \/ AfRun
    \/ AfRunFailed
    \/ AfRunSucceeded
    \/ HoldDeadline
    \/ HoldReturn
    \/ AfChecked

Next == Program \/ Signal

\* The program and its environment.
Spec == Init /\ [][Next]_vars

\* The program left alone: the main goroutine keeps running and time passes.
FairSpec == Init /\ [][Program]_vars /\ WF_vars(Program)

\* initBrowser called again between two cycles, to recycle the session.
Recycle ==
    /\ pc = "idle"
    /\ Persistent(variant)
    /\ inits < MaxInits
    /\ initBrowser
    /\ UNCHANGED << variant, env, config, pc, exitCause, probeSession, intLive,
                    ctxLeft, sleepLeft, tickLeft, tickPending, ticksInCycle, failPhase, runErr,
                    fontTexts, scanIdx, result, afStep, afErr, afDone, afResult,
                    mailAttempts, mailSent, cyclesActive, probesActive,
                    cycleLog,
                    cycleSends, afTrace >>

\* The program, with initBrowser called again up to MaxInits times in all.
SpecRecycle == Init /\ [][Next \/ Recycle]_vars

\* The keyword loop of checkTicketAvailability on every list of at most
\* MaxTexts texts holding at most MaxRunes runes: chromedp.Run has just
\* returned nil with fontTexts filled in.
InitScan ==
    /\ variant \in { v \in Variants : Structural(v) }
    /\ env = GoodEnv
    /\ config = loadConfig(variant, env).cfg
    /\ pc = "scan"
    /\ exitCause = "none"
    /\ browserAllocCtx = (IF Persistent(variant) THEN {1} ELSE {})
    /\ browserCancel = browserAllocCtx
    /\ bgLive = browserAllocCtx
    /\ inits = Cardinality(bgLive)
    /\ probeSession = (IF Persistent(variant) THEN "derived" ELSE "fresh")
    /\ intLive = FALSE
    /\ ctxLeft = ProbeTimeout
    /\ sleepLeft = NoTimer
    /\ tickLeft = config.CheckInterval
    /\ tickPending = 0
    /\ ticksInCycle = 0
    /\ failPhase = "none"
    /\ runErr = NoError
    /\ \E s \in RuneSeqs(MaxRunes) : \E m \in 0..MaxTexts :
          fontTexts \in TextListsOf(s, m)
    /\ scanIdx = 1
    /\ result = NoResult
    /\ afStep = "none"
    /\ afErr = NoError
    /\ afDone = NoForm
    /\ afResult = "none"
    /\ mailAttempts = 0
    /\ mailSent = 0
    /\ cyclesActive = 1
    /\ probesActive = 1
    /\ cycleLog = << >>
    /\ browserMutex = "free"
    /\ cycleSends = << >>
    /\ afTrace = << >>

SpecScan == InitScan /\ [][ScanStep \/ ScanEnd]_vars

(***************************************************************************)
(* Properties.                                                             *)
(***************************************************************************)
Lines(log) == { log[i] : i \in DOMAIN log }
Tags(log) == { log[i].tag : i \in DOMAIN log }

\* C1: in every variant cycles are strictly sequential: at no time are two
\* runCheck calls or two probes in progress, a probe runs only while no
\* notification send or auto-fill of any cycle is in progress, and between
\* two cycles nothing of a cycle is left running.
C1_CyclesSequential ==
    /\ cyclesActive <= 1
    /\ probesActive <= 1
    /\ probesActive = 1 =>
          /\ cyclesActive = 1
          /\ ~intLive
          /\ pc \in {"navigate", "wait_visible", "evaluate", "run_done", "scan",
                     "exited"}
    /\ pc \in {"idle", "first_check"} =>
          /\ cyclesActive = 0
          /\ probesActive = 0
          /\ probeSession = "none"
          /\ ~intLive

\* A later cycle's probe is running after an earlier cycle sent its mail.
C1_Witness ==
    /\ pc = "navigate"
    /\ mailAttempts >= 1
    /\ cyclesActive = 1
    /\ probesActive = 1

\* C2: a probe whose deadline expired while it waited for the marker returns
\* (false, nil), never an error; its cycle logs no error, starts no
\* notification or auto-fill, and ends in the ticker loop.
C2_WaitDeadlineIsNotAvailable ==
    (failPhase = "wait_visible" /\ runErr = ErrDeadline /\ result # NoResult) =>
        /\ result = NotAvailable
        /\ cycleLog = << >>
        /\ pc \in {"probe_ret", "idle"} \/ exitCause = "signal"

\* Such a probe has returned and the scheduler is back at the ticker.
C2_Witness ==
    /\ failPhase = "wait_visible"
    /\ runErr = ErrDeadline
    /\ result = NotAvailable
    /\ pc = "idle"

\* C3: every failure of a probe other than a deadline that expired during the
\* marker wait makes the probe return that failure as its error.
C3_OnlyWaitDeadlineIsBenign ==
    (/\ failPhase # "none"
     /\ result # NoResult
     /\ ~(failPhase = "wait_visible" /\ runErr = ErrDeadline)) =>
        result = Failed(runErr)

KeywordSet == { KeywordRemaining, KeywordHotSelling }
Hit(text) == \E k \in KeywordSet : Contains(text, k)

\* C4: the structural probe returns available iff some extracted text
\* contains a keyword; the texts are looked at in extraction order and the
\* loop stops at the first text that contains one.
C4_AvailableIffKeyword ==
    /\ pc = "scan" => \A j \in 1..(scanIdx - 1) : ~Hit(fontTexts[j])
    /\ pc = "probe_ret" =>
          /\ result.err = NoError
          /\ result.available <=> \E i \in DOMAIN fontTexts : Hit(fontTexts[i])
          /\ result.available =>
                /\ scanIdx \in DOMAIN fontTexts
                /\ Hit(fontTexts[scanIdx])
                /\ \A j \in 1..(scanIdx - 1) : ~Hit(fontTexts[j])
          /\ ~result.available => scanIdx = Len(fontTexts) + 1

\* ["Sold Out", "剩餘 5 張"]: available, found at the second text.
C4_Witness ==
    /\ pc = "probe_ret"
    /\ fontTexts = << <<"x">>, <<"sheng", "yu", "x">> >>
    /\ result = Available
    /\ scanIdx = 2

\* C5: after one or more initBrowser calls exactly one background allocator
\* is alive, the one published in the globals; two never coexist.
C5_OneBackgroundSession ==
    /\ Cardinality(bgLive) <= 1
    /\ (inits >= 1 /\ exitCause # "panic") =>
          /\ Cardinality(bgLive) = 1
          /\ bgLive = browserCancel
          /\ bgLive = browserAllocCtx

\* initBrowser has run twice and only the second allocator is alive.
C5_Witness ==
    /\ inits = 2
    /\ bgLive = {2}

\* C6: whenever the process has exited after initBrowser ran, the background
\* allocator has been released.
C6_ReleasedOnEveryExit ==
    (pc = "exited" /\ inits >= 1) => bgLive = {}

\* C7: while the human-completion sleep runs, the visible browser stays open.
C7_SessionOpenDuringHold ==
    pc = "hold" => intLive

\* C8: when a scripted step failed or did not find its element, the auto-fill
\* returns an error, and the cycle's log tells the user to go to the target
\* URL by hand.
C8_StepFailureIsError ==
    (afResult # "none" /\ (afStep # "none" \/ ~afDone.selected)) =>
        /\ afResult = "error"
        /\ pc = "idle" => Line("manual", NoError, config.TargetURL) \in Lines(cycleLog)

CycleFailed ==
    \/ result.err \notin {NoError, Pending}
    \/ "send_error" \in Tags(cycleLog)
    \/ afResult = "error"

\* C9: a cycle in which the probe, the send or the auto-fill failed does not
\* end the process: main is back at the ticker, and from there a next probe
\* is eventually started.
C9_ErrorsDoNotStopTheLoop ==
    /\ [](CycleFailed => pc # "exited")
    /\ []((CycleFailed /\ cyclesActive = 0) => pc = "idle")
    /\ []((CycleFailed /\ pc = "idle") => <>(pc = "navigate"))

\* A probe is running after a cycle whose send failed.
C9_Witness ==
    /\ pc = "navigate"
    /\ mailAttempts >= 1
    /\ mailSent = 0

ProbePositions == {"navigate", "wait_visible", "evaluate", "run_done", "scan"}

\* C11: the session lock is released as soon as the probe has derived its
\* context: while a probe navigates, waits, extracts or scans, and whenever
\* the main goroutine is between two steps, browserMutex is free, so a call
\* of initBrowser would not block.
C11_LockFreeDuringProbe ==
    /\ pc \in ProbePositions => browserMutex = "free"
    /\ probesActive = 1 => (browserMutex = "free" \/ exitCause = "panic")
    /\ pc \in {"idle", "first_check", "browser_ready"} => browserMutex = "free"

\* A probe of the persistent variant waits for the marker on its derived
\* context, and the lock is free.
C11_Witness ==
    /\ Persistent(variant)
    /\ pc = "wait_visible"
    /\ probeSession = "derived"
    /\ browserAllocCtx = {1}
    /\ browserMutex = "free"

\* main without its initBrowser call: checkTicketAvailability is then called
\* while browserAllocCtx is nil.
NoInitBrowser ==
    /\ pc = "configured"
    /\ Persistent(variant)
    /\ pc' = "browser_ready"
    /\ UNCHANGED << variant, env, config, exitCause, browserAllocCtx,
                    browserCancel, bgLive, inits, probeSession, intLive,
                    ctxLeft, sleepLeft, tickLeft, tickPending, ticksInCycle,
                    failPhase, runErr, fontTexts, scanIdx, result, afStep,
                    afErr, afDone, afResult, mailAttempts, mailSent,
                    cyclesActive, probesActive, cycleLog, browserMutex,
                    cycleSends, afTrace >>

\* The program, and the program with the initBrowser call left out.
SpecNoInit == Init /\ [][Next \/ NoInitBrowser]_vars

Malformed(s) == \E i \in DOMAIN s : s[i] \notin Digits \cup {"+", "-"}

\* A required setting the variant reads is missing, or a numeric one is
\* malformed.
BadSettings(v, e) ==
    \/ e.TARGET_URL = ""
    \/ Malformed(e.CHECK_INTERVAL_SECONDS)
    \/ /\ Mails(v)
       /\ \/ Malformed(e.SMTP_PORT)
          \/ e.RECIPIENT_EMAIL = ""
          \/ e.SENDER_EMAIL = ""
          \/ e.SENDER_PASSWORD = << >>
          \/ e.SMTP_HOST = ""

NothingStarted ==
    /\ config = NoConfig
    /\ inits = 0
    /\ bgLive = {}
    /\ browserAllocCtx = {}
    /\ probeSession = "none"
    /\ ~intLive
    /\ tickLeft = NoTimer
    /\ cyclesActive = 0
    /\ probesActive = 0
    /\ result = NoResult
    /\ mailAttempts = 0
    /\ cycleSends = << >>
    /\ afTrace = << >>

\* C13: with a missing required setting or a malformed numeric one,
\* loadConfig returns an error and main ends the process at once: no
\* allocator is created, no ticker, no probe is started and no mail is sent.
C13_ConfigErrorIsFatal ==
    /\ (BadSettings(variant, env) /\ pc # "start") =>
          /\ pc = "exited"
          /\ exitCause \in {"fatal_config", "signal"}
          /\ NothingStarted
    /\ exitCause = "fatal_config" =>
          /\ pc = "exited"
          /\ loadConfig(variant, env).err # Nil
          /\ NothingStarted

\* The mail variant was started with a malformed SMTP port and has exited.
C13_Witness ==
    /\ Mails(variant)
    /\ Malformed(env.SMTP_PORT)
    /\ pc = "exited"
    /\ exitCause = "fatal_config"

SentTags == {"sent_exit", "sent_continue"}

\* C14: one sendEmailNotification call makes one DialAndSend call and returns
\* its answer, failure as failure and success as success; runCheck calls it
\* at most once, so a cycle makes at most one send attempt and the cycle ends
\* after it.
C14_OneSendAttempt ==
    /\ Len(cycleSends) <= 1
    /\ mailSent <= mailAttempts
    /\ cycleSends # << >> =>
          /\ Mails(variant)
          /\ pc \in {"idle", "exited"}
          /\ mailAttempts >= 1
    /\ cycleSends = << FALSE >> =>
          /\ Line("send_error", ErrSmtp, "") \in Lines(cycleLog)
          /\ Tags(cycleLog) \cap SentTags = {}
    /\ cycleSends = << TRUE >> =>
          /\ "send_error" \notin Tags(cycleLog)
          /\ Tags(cycleLog) \cap SentTags # {}
          /\ mailSent >= 1

\* The one send of a cycle failed and the cycle has ended.
C14_Witness ==
    /\ cycleSends = << FALSE >>
    /\ "send_error" \in Tags(cycleLog)
    /\ pc = "idle"

ReactPositions ==
    {"notify", "af_begin", "af_navigate", "af_wait_form", "af_select",
     "af_click", "af_focus", "af_run_done", "hold", "af_ret"}

Reacted ==
    \/ pc \in ReactPositions
    \/ cycleSends # << >>
    \/ afTrace # << >>
    \/ afResult # "none"
    \/ intLive

\* C15: a cycle goes from the ticker loop to the probe and, from the probe's
\* return, either straight back to the ticker loop (not available, or error)
\* or into the variant's reaction (available): a send or an auto-fill is
\* started only in a cycle whose probe returned (true, nil), and the mail
\* variants never auto-fill, the auto-fill variant never sends.
C15_ReactionOnlyAfterAvailable ==
    /\ Reacted => (result = Available /\ "found" \in Tags(cycleLog))
    /\ result \notin {NoResult, Available} =>
          /\ ~Reacted
          /\ pc \in {"probe_ret", "idle", "exited"}
          /\ pc = "exited" => exitCause = "signal"
    /\ Mails(variant) => (afTrace = << >> /\ afResult = "none" /\ ~intLive)
    /\ ~Mails(variant) => (cycleSends = << >> /\ mailAttempts = 0)
    /\ pc = "probe_ret" => (cyclesActive = 1 /\ probesActive = 0)

\* The probe returned available and the auto-fill it started has returned.
C15_Witness ==
    /\ result = Available
    /\ pc = "af_ret"
    /\ afResult = "ok"

\* C16: ticks are not queued.  At most one tick waits in the ticker's
\* channel however many intervals a cycle lasts, main takes it only when the
\* cycle has returned, and the cycle it then starts begins with an empty
\* channel: a cycle spanning several intervals is followed by one catch-up
\* cycle, and a further one needs a tick fired during that cycle.
C16_TicksNotQueued ==
    /\ tickPending \in {0, 1}
    /\ cyclesActive <= 1
    /\ cyclesActive = 1 => tickPending <= ticksInCycle
    /\ (pc = "navigate" /\ ticksInCycle = 0) => tickPending = 0

\* A cycle has returned during which the ticker fired at least twice: one
\* tick waits.
C16_Witness ==
    /\ pc = "idle"
    /\ ticksInCycle >= 2
    /\ tickPending = 1

AfPositions ==
    {"af_navigate", "af_wait_form", "af_select", "af_click", "af_focus",
     "af_run_done", "hold"}

\* C17: every started probe and auto-fill returns.  While a probe runs, the
\* time it has used is within its 30-second deadline, and it returns a
\* result; while the auto-fill runs its script the time used is within the
\* 3-minute deadline, the sleep after it is within its 3 minutes, and the
\* auto-fill returns nil or an error; every started cycle gets back to the
\* ticker loop or ends the process.
C17_EverythingTerminates ==
    /\ [](pc \in ProbePositions => (0 <= ctxLeft /\ ctxLeft <= ProbeTimeout))
    /\ [](pc \in AfPositions \ {"hold"} =>
             (0 <= ctxLeft /\ ctxLeft <= AutoFillTimeout))
    /\ [](pc = "hold" => (0 <= sleepLeft /\ sleepLeft <= HoldDuration))
    /\ [](pc \in ProbePositions =>
             <>(pc = "probe_ret" /\ result # NoResult /\ probesActive = 0))
    /\ [](pc \in AfPositions => <>(pc = "af_ret" /\ afResult \in {"ok", "error"}))
    /\ [](cyclesActive = 1 => <>(pc \in {"idle", "exited"}))

\* An auto-fill that ran into its deadline has returned the error and the
\* cycle is over.
C17_Witness ==
    /\ afErr = ErrDeadline
    /\ afResult = "error"
    /\ pc = "idle"
    /\ cyclesActive = 0

ScriptOrder ==
    <<"af_navigate", "af_wait_form", "af_select", "af_click", "af_focus">>

IsPrefix(a, b) == Len(a) <= Len(b) /\ \A i \in DOMAIN a : a[i] = b[i]

\* C18: the auto-fill attempts its steps in the order navigate, wait for the
\* form, select quantity, check agree, focus, and sleeps after them.  A step
\* is attempted only after all earlier ones succeeded, the quantity selection
\* included; after a failed step no further step is attempted, the sleep is
\* skipped and the auto-fill returns the error.
C18_StepsInOrder ==
    /\ IsPrefix(afTrace, ScriptOrder)
    /\ \A i \in DOMAIN ScriptOrder :
          pc = ScriptOrder[i] => (Len(afTrace) = i - 1 /\ afStep = "none")
    /\ afStep # "none" =>
          /\ afTrace # << >>
          /\ afStep = afTrace[Len(afTrace)]
          /\ afErr # NoError
          /\ pc \in {"af_run_done", "af_ret", "idle", "exited"}
          /\ sleepLeft = NoTimer
          /\ afResult \in {"none", "error"}
          /\ pc \in {"af_ret", "idle"} => afResult = "error"
          /\ pc = "exited" => exitCause = "signal"
    /\ (pc = "hold" \/ afResult = "ok") =>
          /\ afTrace = ScriptOrder
          /\ afStep = "none"
          /\ afErr = NoError
          /\ afDone.selected
    /\ \A i \in DOMAIN afTrace :
          afTrace[i] \in {"af_click", "af_focus"} => afDone.selected
    /\ afDone.focused => afDone.agreed

CycleStarted ==
    \/ cyclesActive = 1
    \/ result # NoResult
    \/ pc \in {"browser_ready", "first_check", "idle"}

\* C19: the globals of the background allocator are written by initBrowser
\* alone, which main calls once, after loadConfig succeeded and before the
\* first runCheck: every cycle of the persistent variant finds the allocator
\* of that one call, and no step of a probe, a send or an auto-fill, nor the
\* ticker loop, changes browserAllocCtx or browserCancel.
C19_HandleWrittenOnce ==
    /\ [](inits <= 1)
    /\ [](inits = 1 => (Persistent(variant) /\ config # NoConfig))
    /\ []((Persistent(variant) /\ CycleStarted) =>
             (inits = 1 /\ browserAllocCtx = {1} /\ browserCancel = {1}))
    /\ [][(browserAllocCtx' # browserAllocCtx \/ browserCancel' # browserCancel)
            => (pc = "configured" /\ pc' = "browser_ready" /\ inits = 0)]_vars

\* A cycle of the persistent variant ended with a probe error and the
\* allocator of the one initBrowser call is still the published one.
C19_Witness ==
    /\ Persistent(variant)
    /\ pc = "idle"
    /\ result = Failed(ErrNavigate)
    /\ inits = 1
    /\ browserAllocCtx = {1}
    /\ bgLive = {1}

ShortLived ==
    (IF probeSession # "none" THEN 1 ELSE 0) + (IF intLive THEN 1 ELSE 0)

\* C20: the browser context of a probe and the visible browser of an
\* auto-fill are closed on every return path: between two cycles, and after
\* the probe or the auto-fill has returned, none is alive, and never more
\* than one of them beside at most one background allocator.
C20_NoShortLivedLeak ==
    /\ Cardinality(bgLive) <= 1
    /\ ShortLived <= 1
    /\ pc \in {"start", "configured", "browser_ready", "first_check", "idle"} =>
          ShortLived = 0
    /\ pc \in {"probe_ret", "notify", "af_begin"} => ShortLived = 0
    /\ pc = "af_ret" => ShortLived = 0
    /\ result # NoResult => probeSession = "none"
    /\ afResult # "none" => ~intLive
    /\ exitCause \in {"os_exit_0", "fatal_config"} => ShortLived = 0

\* A fresh-session probe returned an error and the cycle is over.
C20_Witness ==
    /\ ~Persistent(variant)
    /\ result = Failed(ErrNavigate)
    /\ pc = "idle"
    /\ probeSession = "none"

\* C21: every Config loadConfig returns has a check interval of at least one
\* second, whatever CHECK_INTERVAL_SECONDS holds, and time.NewTicker is never
\* called with a shorter one.
C21_IntervalAtLeastOneSecond ==
    /\ config # NoConfig => config.CheckInterval >= Second
    /\ tickLeft # NoTimer => config.CheckInterval >= Second
    /\ ~(exitCause = "panic" /\ config.CheckInterval < Second)

====
